---- MODULE Spec2Model ----
(***************************************************************************)
(* Model of tools/profile.py: the sampling loop of run_query, the round    *)
(* aggregation of profile, the threshold classifier of summary (rank and   *)
(* RANGES) and the valgrind report parser of check_leaks_linux.            *)
(*                                                                         *)
(* Numbers that the program keeps as Python floats are modelled as exact   *)
(* rationals <<numerator, denominator>> in lowest terms (denominator > 0), *)
(* so that 0.5, 0.4 and the true division of sum()/len() are computed and  *)
(* compared as the program computes them, up to floating-point rounding.   *)
(***************************************************************************)
EXTENDS Integers, Sequences, FiniteSets, TLC

(***************************************************************************)
(* Bounds of the model.                                                    *)
(***************************************************************************)
\* Largest --timeout explored by SpecRun (seconds).
MaxTimeout == 2
\* Samples a subprocess may deliver under timeout = 0 in SpecRun before the
\* model stops following it (the code itself never stops such a loop).
MaxRunSamples == 4
\* The same cap for the batch specification Spec.
MaxSamples == 1
\* Largest --rounds explored by Spec.
MaxRounds == 2
\* Number of queries in the mapping handed to profile by Spec.
NumQueries == 2
\* Longest line of the leak tool's diagnostics, in symbols.
MaxLineLen == 4
\* Most lines of diagnostics one leak check scans.
MaxLines == 2
\* Most runs of the leak inspector explored for one check_leaks_darwin call.
MaxInspections == 2

(***************************************************************************)
(* Exact rational arithmetic.                                              *)
(***************************************************************************)
Abs(n) == IF n < 0 THEN -n ELSE n

RECURSIVE GCD(_, _)
GCD(a, b) == IF b = 0 THEN a ELSE GCD(b, a % b)

\* n/d in lowest terms, for d > 0.
Norm(n, d) == LET g == GCD(Abs(n), d) IN <<n \div g, d \div g>>

R(n) == <<n, 1>>
RatAdd(a, b) == Norm(a[1] * b[2] + b[1] * a[2], a[2] * b[2])
RatSub(a, b) == Norm(a[1] * b[2] - b[1] * a[2], a[2] * b[2])
\* a / n for an integer n > 0 (true division).
RatDivInt(a, n) == Norm(a[1], a[2] * n)
RatLess(a, b) == a[1] * b[2] < b[1] * a[2]
RatGE(a, b) == ~RatLess(a, b)
RatLE(a, b) == ~RatLess(b, a)

RECURSIVE RatSum(_)
\* sum(list) over a list of rationals.
RatSum(s) == IF s = <<>> THEN R(0) ELSE RatAdd(s[1], RatSum(Tail(s)))

RECURSIVE SelectNonZero(_)
\* [p for p in percents if p != 0]
SelectNonZero(s) ==
    IF s = <<>> THEN <<>>
    ELSE IF s[1] # 0 THEN <<s[1]>> \o SelectNonZero(Tail(s))
         ELSE SelectNonZero(Tail(s))

RECURSIVE IntSum(_)
IntSum(s) == IF s = <<>> THEN 0 ELSE s[1] + IntSum(Tail(s))

(***************************************************************************)
(* Thresholds (profile.py:37-45).                                          *)
(***************************************************************************)
KB == 1024 * 1024

RANGES ==
    [colors      |-> <<"blue", "green", "yellow", "red">>,
     utilization |-> <<R(8), R(20), R(50)>>,
     cpu_time    |-> <<Norm(4, 10), R(1), R(10)>>,
     memory      |-> <<R(8 * KB), R(12 * KB), R(24 * KB)>>,
     fds         |-> <<R(6), R(12), R(50)>>,
     duration    |-> <<Norm(8, 10), R(1), R(3)>>]

\* The keys of RANGES that summary ranks (profile.py:211-213).
RankedKeys == DOMAIN RANGES \ {"colors"}

RECURSIVE rankFrom(_, _, _)
\* The for loop of rank, entered at 0-based index i.
rankFrom(value, ranges, i) ==
    IF i >= Len(ranges) THEN Len(ranges)
    ELSE IF RatLess(value, ranges[i + 1]) THEN i
         ELSE rankFrom(value, ranges, i + 1)

\* rank with the comparison of line 205 reversed.
rankFlipped(value, ranges) ==
    LET hit == {i \in 0..(Len(ranges) - 1) : RatLess(ranges[i + 1], value)}
    IN  IF hit = {} THEN Len(ranges)
        ELSE CHOOSE i \in hit : \A j \in hit : i <= j

\* rank with "<=" in place of "<" on line 205.
rankInclusive(value, ranges) ==
    LET hit == {i \in 0..(Len(ranges) - 1) : RatLE(value, ranges[i + 1])}
    IN  IF hit = {} THEN Len(ranges)
        ELSE CHOOSE i \in hit : \A j \in hit : i <= j

rank(value, ranges) == rankFrom(value, ranges, 0)

(***************************************************************************)
(* State.                                                                  *)
(***************************************************************************)
VARIABLES
    pc,            \* position of the program
    err,           \* exception that left the program, "none" if none did
    queries,       \* the ordered mapping name -> query, as the list of names
    timeout,       \* --timeout
    rounds,        \* --rounds
    qi,            \* profile: index in queries of the query being profiled
    i,             \* profile: rounds completed for that query (range(rounds))
    results,       \* profile: dict field -> list of the rounds' values
    report,        \* profile: dict name -> average_results
    result,        \* profile: what the last run_query returned
    launched,      \* number of subprocesses launched so far (pids 1..launched)
    alive,         \* pids of the subprocesses that have not exited
    killed,        \* pids that proc.kill() was called on
    proc,          \* run_query: pid of its subprocess
    delay,         \* run_query: accumulated delay
    elapsed,       \* run_query: time.time() - start_time
    percents,      \* run_query: the running list of utilization samples
    stats,         \* run_query: the last sample, Unbound before the first
    started,       \* history: name -> number of run_query calls entered
    returned,      \* history: name -> number of run_query calls that returned
    runs,          \* history: RunResults returned for the current query
    key,           \* classifier: metric name given to rank
    value,         \* classifier: first value ranked
    value2,        \* classifier: second value ranked
    rankOut,       \* classifier: rank(value), NoRank before the call
    rankOut2,      \* classifier: rank(value2), NoRank before the call
    leak_summary,  \* check_leaks_linux: dict summary
    line,          \* check_leaks_linux: the line of stderr last scanned
    nlines,        \* check_leaks_linux: lines of stderr scanned so far
    exitBy,        \* history: how run_query's poll loop was left
    kills,         \* history: proc.kill() calls of the current run_query
    shown,         \* what the last summary(..., display=True) call printed
    args,          \* __main__: what the command line and the file system give
    exit_status,   \* __main__: status passed to exit(), NoExit before
    leak_checks,   \* check_leaks_darwin: the local leak_checks
    inspections,   \* check_leaks_darwin: runs of the inspector so far
    dsummary       \* check_leaks_darwin: the dict returned, Unbound before

profileVars == <<queries, timeout, rounds, qi, i, results, report, result,
                 started, returned, runs>>
procVars == <<launched, alive, killed>>
runVars == <<proc, delay, elapsed, percents, stats>>
rankVars == <<key, value, value2, rankOut, rankOut2>>
leakVars == <<leak_summary, line, nlines>>
histVars == <<exitBy, kills>>
mainVars == <<args, exit_status>>
darwinVars == <<leak_checks, inspections, dsummary>>
vars == <<pc, err, profileVars, procVars, runVars, rankVars, leakVars,
          histVars, shown, mainVars, darwinVars>>

\* The value of a local name that nothing has been bound to yet.
Unbound == [unbound |-> TRUE]
NoRank == -1
NoExit == -1
EmptyDict == [k \in {} |-> 0]

(***************************************************************************)
(* The process-metrics provider (psutil) as seen through get_stats         *)
(* (profile.py:84-93).  A sample of a running subprocess is one of a few   *)
(* snapshots; "counters" is never read and is left out.                    *)
(***************************************************************************)
Sample(u, f, us, sy, rss) ==
    [utilization |-> u, fds |-> f,
     cpu_times |-> [user |-> us, system |-> sy],
     memory |-> [rss |-> rss]]

RunSamples ==
    {Sample(0, 5, 1, 1, 4 * KB), Sample(10, 7, 2, 1, 8 * KB),
     Sample(20, 12, 2, 3, 12 * KB)}

ProfileSamples == {Sample(0, 5, 1, 1, 4 * KB), Sample(10, 7, 2, 3, 12 * KB)}

(***************************************************************************)
(* run_query (profile.py:158-199).                                         *)
(***************************************************************************)
step == Norm(1, 2)

\* The timeout test of line 180 with ">" in place of ">=".
TimedOutStrict(d, t) == t > 0 /\ RatLess(R(t + 2), d)

\* The timeout test of line 180 without "timeout > 0".
TimedOutNoGuard(d, t) == RatGE(d, R(t + 2))

\* Line 180: timeout > 0 and delay >= timeout + 2.
TimedOut(d, t) == t > 0 /\ RatGE(d, R(t + 2))

\* Lines 185-189 dividing by the number of all samples.
AvgUtilizationAll(ps) ==
    LET utilization == SelectNonZero(ps)
    IN  IF Len(utilization) = 0 THEN R(0)
        ELSE RatDivInt(R(IntSum(utilization)), Len(ps))

\* Lines 185-189: the average of the non-zero utilization samples.
AvgUtilization(ps) ==
    LET utilization == SelectNonZero(ps)
    IN  IF Len(utilization) = 0 THEN R(0)
        ELSE RatDivInt(R(IntSum(utilization)), Len(utilization))

\* The dict of lines 191-199 with cpu_time taken from the user time alone.
RunResultUserOnly(avg, dur, st) ==
    [utilization |-> avg,
     duration    |-> dur,
     memory      |-> R(st.memory.rss),
     user_time   |-> R(st.cpu_times.user),
     system_time |-> R(st.cpu_times.system),
     cpu_time    |-> R(st.cpu_times.user),
     fds         |-> R(st.fds)]

\* The dict returned on lines 191-199.
RunResult(avg, dur, st) ==
    [utilization |-> avg,
     duration    |-> dur,
     memory      |-> R(st.memory.rss),
     user_time   |-> R(st.cpu_times.user),
     system_time |-> R(st.cpu_times.system),
     cpu_time    |-> R(st.cpu_times.user + st.cpu_times.system),
     fds         |-> R(st.fds)]

\* Lines 160-171: launch the subprocess, bind p, reset the loop's locals.
RunQueryStart ==
    /\ pc = "p_round"
    /\ i < rounds
    /\ launched' = launched + 1
    /\ alive' = alive \cup {launched + 1}
    /\ proc' = launched + 1
    /\ delay' = R(0)
    /\ elapsed' = R(0)
    /\ percents' = <<>>
    /\ stats' = Unbound
    /\ started' = [started EXCEPT ![queries[qi]] = @ + 1]
    /\ pc' = "rq_while"
    /\ exitBy' = "none"
    /\ kills' = 0
    /\ UNCHANGED <<shown, mainVars, darwinVars,
                   err, queries, timeout, rounds, qi, i, results, report,
                   result, returned, runs, killed, rankVars, leakVars>>

\* Line 173: while p.is_running().
CheckRunning ==
    /\ pc = "rq_while"
    /\ pc' = IF proc \in alive THEN "rq_sample" ELSE "rq_after"
    /\ exitBy' = IF proc \in alive THEN exitBy ELSE "exited"
    /\ UNCHANGED <<kills, shown, mainVars, darwinVars,
                   err, profileVars, procVars, runVars, rankVars, leakVars>>

\* Lines 175-182 when get_stats returns sample s: record it, add the step
\* to delay, and kill the subprocess and leave the loop on timeout.  The
\* call blocks for the step, which the clock shows.
SampleOk(S, cap) ==
    /\ pc = "rq_sample"
    /\ proc \in alive
    /\ timeout > 0 \/ Len(percents) < cap
    /\ \E s \in S :
        /\ stats' = s
        /\ percents' = Append(percents, s.utilization)
    /\ delay' = RatAdd(delay, step)
    /\ elapsed' = RatAdd(elapsed, step)
    /\ IF TimedOut(delay', timeout)
       THEN /\ killed' = killed \cup {proc}
            /\ kills' = kills + 1
            /\ exitBy' = "timeout"
            /\ pc' = "rq_after"
       ELSE /\ killed' = killed
            /\ UNCHANGED histVars
            /\ pc' = "rq_while"
    /\ UNCHANGED <<shown, mainVars, darwinVars,
                   err, profileVars, launched, alive, proc, rankVars, leakVars>>

\* Lines 177-178 with pass in place of break: execution goes on at line
\* 179 with the stats of the sample before, and the loop is not left.
SampleAccessDeniedNoBreak ==
    /\ pc = "rq_sample"
    /\ proc \notin alive
    /\ IF stats = Unbound
       THEN /\ err' = "UnboundLocalError"
            /\ pc' = "raised"
            /\ UNCHANGED <<histVars, percents, delay, elapsed>>
       ELSE /\ percents' = Append(percents, stats.utilization)
            /\ delay' = RatAdd(delay, step)
            /\ elapsed' = RatAdd(elapsed, step)
            /\ exitBy' = "denied"
            /\ pc' = "rq_while"
            /\ UNCHANGED <<err, kills>>
    /\ UNCHANGED <<shown, mainVars, darwinVars, profileVars, procVars,
                   proc, stats, rankVars, leakVars>>

\* Lines 177-178: the provider raises AccessDenied for the subprocess that
\* has exited since line 173; the loop is left by break.
SampleAccessDenied ==
    /\ pc = "rq_sample"
    /\ proc \notin alive
    /\ pc' = "rq_after"
    /\ exitBy' = "denied"
    /\ UNCHANGED <<kills, shown, mainVars, darwinVars,
                   err, profileVars, procVars, runVars, rankVars, leakVars>>

\* Line 175: the provider raises NoSuchProcess for the subprocess that has
\* exited since line 173.  Only AccessDenied is caught on line 177, so the
\* exception leaves run_query and, uncaught on line 232, profile.
SampleNoSuchProcess ==
    /\ pc = "rq_sample"
    /\ proc \notin alive
    /\ err' = "NoSuchProcess"
    /\ pc' = "raised"
    /\ UNCHANGED <<histVars, shown, mainVars, darwinVars,
                   profileVars, procVars, runVars, rankVars, leakVars>>

\* Lines 183-199 when no sample was ever bound to stats: line 194 reads an
\* unbound local and raises UnboundLocalError.
RunQueryUnbound ==
    /\ pc = "rq_after"
    /\ stats = Unbound
    /\ err' = "UnboundLocalError"
    /\ pc' = "raised"
    /\ UNCHANGED <<histVars, shown, mainVars, darwinVars,
                   profileVars, procVars, runVars, rankVars, leakVars>>

\* Lines 183-199: duration, average utilization, and the returned dict.
RunQueryReturn ==
    /\ pc = "rq_after"
    /\ stats # Unbound
    /\ LET duration == RatSub(elapsed, R(2))
           avg_utilization == AvgUtilization(percents)
       IN  result' = RunResult(avg_utilization, duration, stats)
    /\ returned' = [returned EXCEPT ![queries[qi]] = @ + 1]
    /\ runs' = Append(runs, result')
    /\ pc' = "p_store"
    /\ UNCHANGED <<histVars, shown, mainVars, darwinVars,
                   err, queries, timeout, rounds, qi, i, results, report,
                   started, procVars, runVars, rankVars, leakVars>>

\* The subprocess exits on its own, or dies of the kill it was sent.
ProcExit ==
    /\ \E pid \in alive : alive' = alive \ {pid}
    /\ UNCHANGED <<histVars, shown, mainVars, darwinVars,
                   pc, err, profileVars, launched, killed, runVars, rankVars,
                   leakVars>>

(***************************************************************************)
(* profile (profile.py:226-243).                                           *)
(***************************************************************************)
\* sum(lst)/len(lst) with the floor division of integers.
AverageFloor(lst) ==
    LET m == RatDivInt(RatSum(lst), Len(lst)) IN R(m[1] \div m[2])

\* Line 240: sum(results[k])/len(results[k]), a true division (line 5).
Average(lst) == RatDivInt(RatSum(lst), Len(lst))

\* Lines 235-237: append each field of the round's result to its list.
StoreResult(res, r) ==
    [k \in DOMAIN res \cup DOMAIN r |->
        IF k \in DOMAIN r
        THEN Append(IF k \in DOMAIN res THEN res[k] ELSE <<>>, r[k])
        ELSE res[k]]

\* Lines 238-240: the average of every collected field.
AverageResults(res) == [k \in DOMAIN res |-> Average(res[k])]

\* Lines 210-216 giving a rank to every key of the record, 0 to the keys
\* RANGES has no thresholds for.
SummaryResultAllKeys(res) ==
    [k \in DOMAIN res |->
        IF k \in RankedKeys THEN rank(res[k], RANGES[k]) ELSE 0]

\* Lines 210-216: the ranks of one result record; "colors" and the keys the
\* record does not have are skipped.
SummaryResult(res) ==
    [k \in {k \in DOMAIN RANGES : k # "colors" /\ k \in DOMAIN res} |->
        rank(res[k], RANGES[k])]

\* Lines 208-224: summary(results); the label of a record is a pair here.
\* With display the lines 218-222 also print every rank in its colour,
\* RANGES["colors"][v], which state does not keep.
summary(rs) == [label \in DOMAIN rs |-> SummaryResult(rs[label])]

\* Lines 228-230: the next query of the mapping; its results start empty.
NextQuery ==
    /\ pc = "p_for"
    /\ qi < Len(queries)
    /\ qi' = qi + 1
    /\ results' = EmptyDict
    /\ i' = 0
    /\ runs' = <<>>
    /\ pc' = "p_round"
    /\ UNCHANGED <<histVars, shown, mainVars, darwinVars,
                   err, queries, timeout, rounds, report, result, started,
                   returned, procVars, runVars, rankVars, leakVars>>

\* Lines 233-237: show the round, labelled (name, i+1), and store its
\* result.
StoreRound ==
    /\ pc = "p_store"
    /\ shown' = summary([label \in {<<queries[qi], i + 1>>} |-> result])
    /\ results' = StoreResult(results, result)
    /\ i' = i + 1
    /\ pc' = "p_round"
    /\ UNCHANGED <<histVars, mainVars, darwinVars,
                   err, queries, timeout, rounds, qi, report, result, started,
                   returned, runs, procVars, runVars, rankVars, leakVars>>

\* Lines 238-241, after the last round: report[name] = average_results.
AverageRounds ==
    /\ pc = "p_round"
    /\ i >= rounds
    /\ LET name == queries[qi]
           average_results == AverageResults(results)
       IN  report' = [n \in DOMAIN report \cup {name} |->
                        IF n = name THEN average_results ELSE report[n]]
    /\ pc' = "p_avg"
    /\ UNCHANGED <<histVars, shown, mainVars, darwinVars,
                   err, queries, timeout, rounds, qi, i, results, result,
                   started, returned, runs, procVars, runVars, rankVars,
                   leakVars>>

\* Line 242: show the average, labelled (name, 0), then back to line 228.
SummaryAvg ==
    /\ pc = "p_avg"
    /\ shown' = summary([label \in {<<queries[qi], 0>>} |->
                            report[queries[qi]]])
    /\ pc' = "p_for"
    /\ UNCHANGED <<histVars, mainVars, darwinVars,
                   err, profileVars, procVars, runVars, rankVars, leakVars>>

\* Line 243: return report.
ProfileReturn ==
    /\ pc = "p_for"
    /\ qi >= Len(queries)
    /\ pc' = "done"
    /\ UNCHANGED <<histVars, shown, mainVars, darwinVars,
                   err, profileVars, procVars, runVars, rankVars, leakVars>>

(***************************************************************************)
(* summary.rank applied to one metric (profile.py:203-206, 216).           *)
(***************************************************************************)
half == Norm(1, 2)

\* Values handed to rank for metric k: every threshold, a half below and
\* above each, and 0, 0.3 and 50.
Probes(k) ==
    LET ts == RANGES[k]
    IN  {ts[j] : j \in 1..Len(ts)}
        \cup {RatSub(ts[j], half) : j \in 1..Len(ts)}
        \cup {RatAdd(ts[j], half) : j \in 1..Len(ts)}
        \cup {R(0), Norm(3, 10), R(50)}

\* Line 216 for the first value.
ClassifyFirst ==
    /\ pc = "rank"
    /\ rankOut = NoRank
    /\ rankOut' = rank(value, RANGES[key])
    /\ UNCHANGED <<histVars, shown, mainVars, darwinVars,
                   pc, err, profileVars, procVars, runVars, key, value,
                   value2, rankOut2, leakVars>>

\* Line 216 for the second value.
ClassifySecond ==
    /\ pc = "rank"
    /\ rankOut2 = NoRank
    /\ rankOut2' = rank(value2, RANGES[key])
    /\ UNCHANGED <<histVars, shown, mainVars, darwinVars,
                   pc, err, profileVars, procVars, runVars, key, value,
                   value2, rankOut, leakVars>>

(***************************************************************************)
(* check_leaks_linux (profile.py:95-113).  A line of valgrind's stderr is  *)
(* a sequence of symbols: the tokens the parser looks for, the colon, the  *)
(* blank and a word of other text.  A field of summary is None or Some of  *)
(* a string.                                                               *)
(***************************************************************************)
None == <<>>
Some(v) == <<v>>

LeakKeys == {"definitely", "indirectly", "possibly"}
Symbols == {"definitely", "possibly", ":", " ", "120"}
Lines == UNION {[1..n -> Symbols] : n \in 0..MaxLineLen}

\* line.find(key) >= 0
Contains(l, k) == \E j \in 1..Len(l) : l[j] = k

RECURSIVE Split(_)
\* line.split(":")
Split(l) ==
    IF ~Contains(l, ":") THEN <<l>>
    ELSE LET j == CHOOSE n \in 1..Len(l) :
                    l[n] = ":" /\ \A m \in 1..(n - 1) : l[m] # ":"
         IN  <<SubSeq(l, 1, j - 1)>> \o Split(SubSeq(l, j + 1, Len(l)))

RECURSIVE Strip(_)
\* str.strip()
Strip(t) ==
    IF t = <<>> THEN t
    ELSE IF Head(t) = " " THEN Strip(Tail(t))
    ELSE IF t[Len(t)] = " " THEN Strip(SubSeq(t, 1, Len(t) - 1))
    ELSE t

\* Lines 109-112 for one line l that splits into at least two parts.
ScanLine ==
    /\ pc = "leak_scan"
    /\ nlines < MaxLines
    /\ \E l \in Lines :
        /\ (\E k \in LeakKeys : Contains(l, k)) => Len(Split(l)) >= 2
        /\ line' = l
        /\ leak_summary' =
               [k \in LeakKeys |->
                   IF Contains(l, k) THEN Some(Strip(Split(l)[2]))
                   ELSE leak_summary[k]]
    /\ nlines' = nlines + 1
    /\ UNCHANGED <<histVars, shown, mainVars, darwinVars,
                   pc, err, profileVars, procVars, runVars, rankVars>>

\* Line 112 for a line that holds a key and no colon: split(":")[1] raises
\* IndexError, which nothing catches.
ScanLineIndexError ==
    /\ pc = "leak_scan"
    /\ nlines < MaxLines
    /\ \E l \in Lines :
        /\ \E k \in LeakKeys : Contains(l, k)
        /\ Len(Split(l)) < 2
        /\ line' = l
    /\ nlines' = nlines + 1
    /\ err' = "IndexError"
    /\ pc' = "raised"
    /\ UNCHANGED <<histVars, shown, mainVars, darwinVars,
                   profileVars, procVars, runVars, rankVars, leak_summary>>

\* Line 113, once every line of stderr has been scanned.
CheckLeaksReturn ==
    /\ pc = "leak_scan"
    /\ pc' = "leak_done"
    /\ UNCHANGED <<histVars, shown, mainVars, darwinVars,
                   err, profileVars, procVars, runVars, rankVars, leakVars>>

(***************************************************************************)
(* check_leaks_darwin (profile.py:115-130).  The output of one run of the  *)
(* leaks inspector is scanned line by line; a line is a sequence of        *)
(* symbols as for check_leaks_linux.                                       *)
(***************************************************************************)
DarwinToken == "total leaked bytes"
DarwinSymbols == {DarwinToken, ":", " ", "48"}
DarwinLines == UNION {[1..n -> DarwinSymbols] : n \in 0..MaxLineLen}

\* Lines 120-123 while proc.poll() is None: run the inspector once more.
DarwinInspect ==
    /\ pc = "dw_while"
    /\ proc \in alive
    /\ inspections < MaxInspections
    /\ inspections' = inspections + 1
    /\ nlines' = 0
    /\ pc' = "dw_scan"
    /\ UNCHANGED <<histVars, shown, mainVars, leak_checks, dsummary,
                   err, profileVars, procVars, runVars, rankVars,
                   leak_summary, line>>

\* Lines 125-127 for one line of the inspector's output that splits into
\* at least two parts if it holds the token.
DarwinScanLine ==
    /\ pc = "dw_scan"
    /\ nlines < MaxLines
    /\ \E l \in DarwinLines :
        /\ Contains(l, DarwinToken) => Len(Split(l)) >= 2
        /\ line' = l
        /\ leak_checks' =
               IF Contains(l, DarwinToken) THEN Some(Strip(Split(l)[2]))
               ELSE leak_checks
    /\ nlines' = nlines + 1
    /\ UNCHANGED <<histVars, shown, mainVars, inspections, dsummary,
                   pc, err, profileVars, procVars, runVars, rankVars,
                   leak_summary>>

\* Lines 127-129 for a line with the token and no colon: the IndexError is
\* caught by the bare except, stdout is printed, and the rest of this
\* output is not scanned.
DarwinScanExcept ==
    /\ pc = "dw_scan"
    /\ nlines < MaxLines
    /\ \E l \in DarwinLines :
        /\ Contains(l, DarwinToken)
        /\ Len(Split(l)) < 2
        /\ line' = l
    /\ nlines' = nlines + 1
    /\ pc' = "dw_while"
    /\ UNCHANGED <<histVars, shown, mainVars, darwinVars,
                   err, profileVars, procVars, runVars, rankVars,
                   leak_summary>>

\* Line 125 at the end of the output: back to line 120.
DarwinScanEnd ==
    /\ pc = "dw_scan"
    /\ pc' = "dw_while"
    /\ UNCHANGED <<histVars, shown, mainVars, darwinVars,
                   err, profileVars, procVars, runVars, rankVars, leakVars>>

\* Lines 120 and 130 once proc.poll() is not None.
DarwinReturn ==
    /\ pc = "dw_while"
    /\ proc \notin alive
    /\ dsummary' = [definitely |-> leak_checks]
    /\ pc' = "dw_done"
    /\ UNCHANGED <<histVars, shown, mainVars, leak_checks, inspections,
                   err, profileVars, procVars, runVars, rankVars, leakVars>>

(***************************************************************************)
(* __main__ (profile.py:245-310) and queries_from_config (47-61).  args    *)
(* holds what the command line and the file system give: whether --shell,  *)
(* --tables and --config name existing paths, whether --config and --query *)
(* are given, whether the config parses and has scheduledQueries, whether  *)
(* --leaks is set, and whether the discovery finds any query.              *)
(***************************************************************************)
ArgSets ==
    [shell_exists : BOOLEAN, tables_exists : BOOLEAN,
     config_given : BOOLEAN, config_exists : BOOLEAN,
     config_parses : BOOLEAN, has_scheduled : BOOLEAN,
     query_given : BOOLEAN, leaks : BOOLEAN, found : BOOLEAN]

\* Lines 278-280 left out: the shell path is not checked.
MainCheckShellSkipped ==
    /\ pc = "m_shell"
    /\ pc' = "m_tables"
    /\ UNCHANGED <<histVars, shown, mainVars, darwinVars,
                   err, profileVars, procVars, runVars, rankVars, leakVars>>

\* Lines 278-280.
MainCheckShell ==
    /\ pc = "m_shell"
    /\ IF ~args.shell_exists
       THEN pc' = "exit" /\ exit_status' = 1
       ELSE pc' = "m_tables" /\ UNCHANGED exit_status
    /\ UNCHANGED <<histVars, shown, args, darwinVars,
                   err, profileVars, procVars, runVars, rankVars, leakVars>>

\* Lines 281-283: the table specs are looked for only without --config.
MainCheckTables ==
    /\ pc = "m_tables"
    /\ IF ~args.config_given /\ ~args.tables_exists
       THEN pc' = "exit" /\ exit_status' = 1
       ELSE pc' = "m_queries" /\ UNCHANGED exit_status
    /\ UNCHANGED <<histVars, shown, args, darwinVars,
                   err, profileVars, procVars, runVars, rankVars, leakVars>>

\* Lines 285-294 with queries_from_config (lines 47-61): the queries come
\* from the config, from --query, or from the table specs.  A config that
\* is missing or does not parse exits with 1, one without scheduledQueries
\* with 0.
MainQueries ==
    /\ pc = "m_queries"
    /\ IF args.config_given /\ ~args.config_exists
       THEN pc' = "exit" /\ exit_status' = 1 /\ UNCHANGED queries
       ELSE IF args.config_given /\ ~args.config_parses
       THEN pc' = "exit" /\ exit_status' = 1 /\ UNCHANGED queries
       ELSE IF args.config_given /\ ~args.has_scheduled
       THEN pc' = "exit" /\ exit_status' = 0 /\ UNCHANGED queries
       ELSE /\ pc' = "m_mode"
            /\ UNCHANGED exit_status
            /\ queries' =
                  IF ~args.config_given /\ args.query_given THEN <<1>>
                  ELSE IF args.found THEN <<1>> ELSE <<>>
    /\ UNCHANGED <<histVars, shown, args, darwinVars,
                   err, timeout, rounds, qi, i, results, report, result,
                   started, returned, runs, procVars, runVars, rankVars,
                   leakVars>>

\* Lines 296-303: profile_leaks with --leaks, profile without.
MainDispatch ==
    /\ pc = "m_mode"
    /\ pc' = IF args.leaks THEN "pl_for" ELSE "p_for"
    /\ UNCHANGED <<histVars, shown, mainVars, darwinVars,
                   err, profileVars, procVars, runVars, rankVars, leakVars>>

\* Lines 140-143 with 101-102 or 117-118: profile_leaks launches the leak
\* check of the next query.  What the check does with the subprocess is
\* followed by SpecLeaks and SpecDarwin.
LeakCheckLaunch ==
    /\ pc = "pl_for"
    /\ qi < Len(queries)
    /\ qi' = qi + 1
    /\ launched' = launched + 1
    /\ alive' = alive \cup {launched + 1}
    /\ pc' = "pl_check"
    /\ UNCHANGED <<histVars, shown, mainVars, darwinVars,
                   err, queries, timeout, rounds, i, results, report, result,
                   started, returned, runs, killed, runVars, rankVars,
                   leakVars>>

\* Lines 156 and 299: profile_leaks returns and __main__ exits with 0.
MainLeaksExit ==
    /\ pc = "pl_for"
    /\ qi >= Len(queries)
    /\ pc' = "exit"
    /\ exit_status' = 0
    /\ UNCHANGED <<histVars, shown, args, darwinVars,
                   err, profileVars, procVars, runVars, rankVars, leakVars>>

\* Lines 305-310 after profile returned: the report is written and the
\* program ends.
MainFinish ==
    /\ pc = "done"
    /\ pc' = "exit"
    /\ exit_status' = 0
    /\ UNCHANGED <<histVars, shown, args, darwinVars,
                   err, profileVars, procVars, runVars, rankVars, leakVars>>

(***************************************************************************)
(* Specifications.                                                         *)
(***************************************************************************)
InitIdleRun ==
    /\ qi = 0 /\ i = 0
    /\ results = EmptyDict /\ report = EmptyDict /\ result = Unbound
    /\ launched = 0 /\ alive = {} /\ killed = {}
    /\ proc = 0 /\ delay = R(0) /\ elapsed = R(0)
    /\ percents = <<>> /\ stats = Unbound
    /\ runs = <<>>

InitIdleHist ==
    /\ exitBy = "none" /\ kills = 0 /\ shown = EmptyDict

InitIdleMain ==
    /\ args = Unbound /\ exit_status = NoExit

InitIdleDarwin ==
    /\ leak_checks = None /\ inspections = 0 /\ dsummary = Unbound

InitIdleRank ==
    /\ key = "none" /\ value = R(0) /\ value2 = R(0)
    /\ rankOut = NoRank /\ rankOut2 = NoRank

InitIdleLeaks ==
    /\ leak_summary = EmptyDict /\ line = <<>> /\ nlines = 0

\* profile over NumQueries queries, as __main__ calls it (lines 302-303).
Init ==
    /\ pc = "p_for" /\ err = "none"
    /\ queries = [n \in 1..NumQueries |-> n]
    /\ timeout = 0
    /\ rounds \in 0..MaxRounds
    /\ started = [n \in 1..NumQueries |-> 0]
    /\ returned = [n \in 1..NumQueries |-> 0]
    /\ InitIdleRun /\ InitIdleRank /\ InitIdleLeaks
    /\ InitIdleHist /\ InitIdleMain /\ InitIdleDarwin

\* profile of a single query for one round: one run_query call.
InitRun ==
    /\ pc = "p_for" /\ err = "none"
    /\ queries = <<1>>
    /\ timeout \in 0..MaxTimeout
    /\ rounds = 1
    /\ started = <<0>>
    /\ returned = <<0>>
    /\ InitIdleRun /\ InitIdleRank /\ InitIdleLeaks
    /\ InitIdleHist /\ InitIdleMain /\ InitIdleDarwin

Next ==
    \/ NextQuery
    \/ RunQueryStart
    \/ CheckRunning
    \/ SampleOk(ProfileSamples, MaxSamples)
    \/ SampleAccessDenied
    \/ SampleNoSuchProcess
    \/ RunQueryUnbound
    \/ RunQueryReturn
    \/ StoreRound
    \/ AverageRounds
    \/ SummaryAvg
    \/ ProfileReturn
    \/ ProcExit

NextRun ==
    \/ NextQuery
    \/ RunQueryStart
    \/ CheckRunning
    \/ SampleOk(RunSamples, MaxRunSamples)
    \/ SampleAccessDenied
    \/ SampleNoSuchProcess
    \/ RunQueryUnbound
    \/ RunQueryReturn
    \/ StoreRound
    \/ AverageRounds
    \/ SummaryAvg
    \/ ProfileReturn
    \/ ProcExit

\* rank called on two values of one metric.
InitRank ==
    /\ pc = "rank" /\ err = "none"
    /\ queries = <<>> /\ timeout = 0 /\ rounds = 0
    /\ started = <<>> /\ returned = <<>>
    /\ InitIdleRun /\ InitIdleLeaks
    /\ InitIdleHist /\ InitIdleMain /\ InitIdleDarwin
    /\ key \in RankedKeys
    /\ value \in Probes(key)
    /\ value2 \in Probes(key)
    /\ rankOut = NoRank /\ rankOut2 = NoRank

NextRank ==
    \/ ClassifyFirst
    \/ ClassifySecond

\* check_leaks_linux after valgrind has exited (lines 104-108).
InitLeaks ==
    /\ pc = "leak_scan" /\ err = "none"
    /\ queries = <<>> /\ timeout = 0 /\ rounds = 0
    /\ started = <<>> /\ returned = <<>>
    /\ InitIdleRun /\ InitIdleRank
    /\ InitIdleHist /\ InitIdleMain /\ InitIdleDarwin
    /\ leak_summary = [k \in LeakKeys |-> None]
    /\ line = <<>> /\ nlines = 0

NextLeaks ==
    \/ ScanLine
    \/ ScanLineIndexError
    \/ CheckLeaksReturn

\* check_leaks_darwin after it launched the query (lines 116-119).
InitDarwin ==
    /\ pc = "dw_while" /\ err = "none"
    /\ queries = <<>> /\ timeout = 0 /\ rounds = 0
    /\ started = <<>> /\ returned = <<>>
    /\ qi = 0 /\ i = 0
    /\ results = EmptyDict /\ report = EmptyDict /\ result = Unbound
    /\ launched = 1 /\ alive = {1} /\ killed = {}
    /\ proc = 1 /\ delay = R(0) /\ elapsed = R(0)
    /\ percents = <<>> /\ stats = Unbound
    /\ runs = <<>>
    /\ InitIdleRank /\ InitIdleLeaks /\ InitIdleHist /\ InitIdleMain
    /\ InitIdleDarwin

NextDarwin ==
    \/ DarwinInspect
    \/ DarwinScanLine
    \/ DarwinScanExcept
    \/ DarwinScanEnd
    \/ DarwinReturn
    \/ ProcExit

\* The one sample of a subprocess that runs until it is killed.
KillSamples == {Sample(10, 7, 2, 3, 12 * KB)}

\* profile of one query for two rounds under --timeout 1.
InitKill ==
    /\ pc = "p_for" /\ err = "none"
    /\ queries = <<1>>
    /\ timeout = 1
    /\ rounds = 2
    /\ started = <<0>>
    /\ returned = <<0>>
    /\ InitIdleRun /\ InitIdleRank /\ InitIdleLeaks
    /\ InitIdleHist /\ InitIdleMain /\ InitIdleDarwin

NextKill ==
    \/ NextQuery
    \/ RunQueryStart
    \/ CheckRunning
    \/ SampleOk(KillSamples, MaxSamples)
    \/ SampleAccessDenied
    \/ SampleNoSuchProcess
    \/ RunQueryUnbound
    \/ RunQueryReturn
    \/ StoreRound
    \/ AverageRounds
    \/ SummaryAvg
    \/ ProfileReturn
    \/ ProcExit

\* The program from its first check, for every combination of args; one
\* round, no timeout.
InitMain ==
    /\ pc = "m_shell" /\ err = "none"
    /\ queries = <<>>
    /\ timeout = 0
    /\ rounds = 1
    /\ started = <<0>>
    /\ returned = <<0>>
    /\ InitIdleRun /\ InitIdleRank /\ InitIdleLeaks
    /\ InitIdleHist /\ InitIdleDarwin
    /\ args \in ArgSets
    /\ exit_status = NoExit

NextMain ==
    \/ MainCheckShell
    \/ MainCheckTables
    \/ MainQueries
    \/ MainDispatch
    \/ LeakCheckLaunch
    \/ MainLeaksExit
    \/ MainFinish
    \/ Next

Spec == Init /\ [][Next]_vars

SpecMain == InitMain /\ [][NextMain]_vars

SpecDarwin == InitDarwin /\ [][NextDarwin]_vars

SpecKill == InitKill /\ [][NextKill]_vars

SpecRank == InitRank /\ [][NextRank]_vars

SpecLeaks == InitLeaks /\ [][NextLeaks]_vars

SpecRun == InitRun /\ [][NextRun]_vars

(***************************************************************************)
(* Properties.                                                             *)
(***************************************************************************)
\* run_query has been entered and its locals are those of that call.
InRunQuery == proc # 0

\* C1: with timeout > 0 the poll loop adds 0.5 to delay per completed sample,
\* keeps polling only while delay < timeout + 2, and at the first sample that
\* brings delay to timeout + 2 kills the subprocess and leaves the loop, so
\* that at most 2*(timeout+2) samples are taken and run_query returns; with
\* timeout = 2 the kill comes at delay 4.
C1_TimeoutEnforced ==
    (InRunQuery /\ timeout > 0) =>
        /\ Len(percents) <= 2 * (timeout + 2)
        /\ delay = Norm(Len(percents), 2)
        /\ pc \in {"rq_while", "rq_sample"} => RatLess(delay, R(timeout + 2))
        /\ RatGE(delay, R(timeout + 2)) => proc \in killed
        /\ proc \in killed =>
              /\ delay = R(timeout + 2)
              /\ pc \notin {"rq_while", "rq_sample", "raised"}
              /\ err = "none"
        /\ (timeout = 2 /\ proc \in killed) => delay = R(4)

\* A subprocess that never exited was killed at delay 4 under timeout 2,
\* after 8 samples, and run_query has returned.
C1_Witness ==
    /\ timeout = 2 /\ proc \in killed /\ proc \in alive
    /\ delay = R(4) /\ Len(percents) = 8
    /\ pc = "p_store" /\ result # Unbound

\* C2: when the poll loop ends without any successful sample, run_query
\* still returns a RunResult: it does not fail.
C2_ZeroSamplesStillReturn ==
    (InRunQuery /\ percents = <<>>) => err # "UnboundLocalError"

\* C3: the process-gone error raised by the sampler inside the poll loop
\* never leaves run_query.
C3_ProcessGoneNeverSurfaces ==
    err # "NoSuchProcess"

\* C4: profile calls run_query exactly `rounds` times for every query, one
\* call at a time: when profile is over, every query has had `rounds` calls
\* entered and returned, and at no time is more than one call in progress.
C4_ExactlyRoundsCalls ==
    /\ \A n \in DOMAIN started :
          /\ started[n] - returned[n] \in {0, 1}
          /\ started[n] <= rounds
    /\ Cardinality({n \in DOMAIN started : started[n] # returned[n]}) <= 1
    /\ pc \in {"done", "raised"} =>
          \A n \in DOMAIN started : started[n] = rounds /\ returned[n] = rounds

\* The seven fields of a RunResult.
Fields ==
    {"utilization", "duration", "memory", "user_time", "system_time",
     "cpu_time", "fds"}

\* C5: when the average of a query profiled with rounds >= 1 is stored in the
\* report, run_query has returned exactly `rounds` RunResults for that query
\* and every field of the stored average, times rounds, is the sum of that
\* field over those RunResults.
C5_ReportIsMeanOfRounds ==
    (pc = "p_avg" /\ rounds >= 1) =>
        LET a == report[queries[qi]]
        IN  /\ Len(runs) = rounds
            /\ DOMAIN a = Fields
            /\ \A k \in Fields :
                  LET total == RatSum([j \in 1..Len(runs) |-> runs[j][k]])
                  IN  a[k][1] * rounds * total[2] = total[1] * a[k][2]

\* The second query's average over two different rounds has been stored:
\* its user_time is 3/2, the mean of 1 and 2.
C5_Witness ==
    /\ pc = "p_avg" /\ rounds = 2 /\ qi = 2
    /\ runs[1] # runs[2]
    /\ report[queries[qi]].user_time = Norm(3, 2)
    /\ queries[1] \in DOMAIN report

\* The sample that the last successful get_stats call returned, found by
\* its utilization (the samples of RunSamples differ in it).
LastSample ==
    CHOOSE s \in RunSamples : s.utilization = percents[Len(percents)]

\* C6: every RunResult returned by run_query has cpu_time = user_time +
\* system_time, the user and system times being those of the last sample
\* that was captured.
C6_CpuTimeIsUserPlusSystem ==
    result # Unbound =>
        /\ result.cpu_time = RatAdd(result.user_time, result.system_time)
        /\ result.user_time = R(LastSample.cpu_times.user)
        /\ result.system_time = R(LastSample.cpu_times.system)

\* A RunResult built from a last sample with user 2 and system 3 that
\* followed a sample with other times.
C6_Witness ==
    /\ result # Unbound /\ pc = "p_store"
    /\ Len(percents) >= 2
    /\ percents[Len(percents) - 1] = 10 /\ percents[Len(percents)] = 20
    /\ result.user_time = R(2) /\ result.system_time = R(3)
    /\ result.cpu_time = R(5)

\* C7: the utilization of a RunResult is the sum of the samples divided by
\* the number of non-zero samples, and 0 when no sample is non-zero; every
\* sample, zero or not, is in the running list.  [0,0,10,20,0] gives 15 and
\* [0,0,0] gives 0.
C7_UtilizationSkipsZeros ==
    result # Unbound =>
        LET nz == {j \in 1..Len(percents) : percents[j] # 0}
            u == result.utilization
        IN  /\ delay = Norm(Len(percents), 2)
            /\ IF nz = {} THEN u = R(0)
               ELSE u[1] * Cardinality(nz) = u[2] * IntSum(percents)
            /\ percents = <<0, 0, 10, 20, 0>> => u = R(15)
            /\ percents = <<0, 0, 0>> => u = R(0)

\* run_query returned after the samples 0, 0, 10, 20, 0 with utilization 15.
C7_Witness ==
    /\ result # Unbound
    /\ percents = <<0, 0, 10, 20, 0>>
    /\ result.utilization = R(15)

\* C8: the rank of a value is the smallest 0-based index of a threshold the
\* value is below, or the number of thresholds if there is none; it lies in
\* 0..len(thresholds); a value equal to a threshold is ranked above it; the
\* thresholds are those of the specification.
C8_RankIsFirstThresholdAbove ==
    /\ RANGES.utilization = <<R(8), R(20), R(50)>>
    /\ RANGES.cpu_time = <<Norm(2, 5), R(1), R(10)>>
    /\ RANGES.memory =
          <<R(8 * 1024 * 1024), R(12 * 1024 * 1024), R(24 * 1024 * 1024)>>
    /\ RANGES.fds = <<R(6), R(12), R(50)>>
    /\ RANGES.duration = <<Norm(4, 5), R(1), R(3)>>
    /\ rankOut # NoRank =>
          LET ts == RANGES[key]
          IN  /\ rankOut \in 0..Len(ts)
              /\ \A j \in 1..rankOut : ~RatLess(value, ts[j])
              /\ rankOut < Len(ts) => RatLess(value, ts[rankOut + 1])
              /\ \A j \in 1..Len(ts) : value = ts[j] => rankOut >= j
              /\ key = "cpu_time" =>
                    /\ value = Norm(3, 10) => rankOut = 0
                    /\ value = Norm(4, 10) => rankOut = 1
                    /\ value = R(1) => rankOut = 2
                    /\ value = R(10) => rankOut = 3
                    /\ value = R(50) => rankOut = 3

\* cpu_time 0.4, equal to the first threshold, has been ranked 1.
C8_Witness ==
    key = "cpu_time" /\ value = Norm(4, 10) /\ rankOut = 1

\* C9: for two values v1 <= v2 of one metric, rank(v1) <= rank(v2).
C9_RankMonotonic ==
    (rankOut # NoRank /\ rankOut2 # NoRank /\ RatLE(value, value2)) =>
        rankOut <= rankOut2

\* Two values of one metric have been ranked, the larger strictly higher.
C9_Witness ==
    /\ rankOut # NoRank /\ rankOut2 # NoRank
    /\ RatLess(value, value2) /\ rankOut < rankOut2

\* The text after the first colon of a line that has one.
AfterFirstColon(l) ==
    LET j == CHOOSE n \in 1..Len(l) :
                l[n] = ":" /\ \A m \in 1..(n - 1) : l[m] # ":"
    IN  SubSeq(l, j + 1, Len(l))

\* C10: scanning a line that has a colon sets every summary field whose token
\* is on the line to the trimmed text after the line's first colon and leaves
\* the other fields as they were (None at first).
C10_FieldIsTextAfterFirstColon ==
    [][(nlines' = nlines + 1 /\ Contains(line', ":")) =>
          \A k \in LeakKeys :
              leak_summary'[k] =
                  IF Contains(line', k)
                  THEN Some(Strip(AfterFirstColon(line')))
                  ELSE leak_summary[k]]_vars

\* C11: a failure inside one query's run never aborts the batch: profile
\* ends by returning, and the report it returns has an entry for every
\* query name.
C11_BatchNeverAborted ==
    /\ pc # "raised"
    /\ pc = "done" => \A n \in 1..Len(queries) : queries[n] \in DOMAIN report

\* C13: when the poll loop is left because a sample raised AccessDenied after
\* at least one successful sample, nothing is raised, polling has stopped,
\* the failed sample added nothing to percents or delay, and the RunResult
\* returned carries the memory, times and fds of the last sample captured.
C13_AccessDeniedKeepsLastSample ==
    (exitBy = "denied" /\ percents # <<>>) =>
        /\ err = "none"
        /\ pc \notin {"rq_while", "rq_sample", "raised"}
        /\ delay = Norm(Len(percents), 2)
        /\ stats = LastSample
        /\ pc \notin {"rq_after"} =>
              /\ result.memory = R(LastSample.memory.rss)
              /\ result.user_time = R(LastSample.cpu_times.user)
              /\ result.system_time = R(LastSample.cpu_times.system)
              /\ result.cpu_time =
                    R(LastSample.cpu_times.user + LastSample.cpu_times.system)
              /\ result.fds = R(LastSample.fds)
              /\ result.utilization = AvgUtilization(percents)

\* run_query returned after two samples and an AccessDenied from the third
\* get_stats call.
C13_Witness ==
    /\ exitBy = "denied" /\ pc = "p_store"
    /\ percents = <<20, 10>>
    /\ result.memory = R(8 * KB) /\ result.fds = R(7)

\* C16: proc.kill() is called at most once per run_query call, and only with
\* timeout > 0 and delay >= timeout + 2; with timeout = 0 nothing is ever
\* killed and the loop is left only once the subprocess has exited (seen by
\* is_running or by a failing sample).
C16_KillOnlyOnTimeout ==
    InRunQuery =>
        /\ kills <= 1
        /\ kills = 1 <=> proc \in killed
        /\ proc \in killed =>
              /\ timeout > 0
              /\ RatGE(delay, R(timeout + 2))
              /\ exitBy = "timeout"
        /\ timeout = 0 =>
              /\ killed = {}
              /\ pc \notin {"rq_while", "rq_sample"} =>
                    /\ proc \notin alive
                    /\ exitBy \in {"exited", "denied"} \/ pc = "raised"

\* With timeout = 0 a run_query call took four samples (delay 2, where a
\* timeout would have struck), killed nothing and returned after the
\* subprocess exited.
C16_Witness ==
    /\ timeout = 0 /\ pc = "p_store" /\ delay = R(2)
    /\ kills = 0 /\ killed = {} /\ proc \notin alive

\* C17: what summary shows for a record has exactly the keys that are in the
\* record and among utilization, cpu_time, memory, fds, duration; user_time,
\* system_time and colors get no rank; every rank indexes a colour.
C17_SummarySkipsUnrankedKeys ==
    LET Ranked == {"utilization", "cpu_time", "memory", "fds", "duration"}
        ShownFor(label, rec) ==
            /\ DOMAIN shown = {label}
            /\ DOMAIN shown[label] = DOMAIN rec \cap Ranked
            /\ \A k \in DOMAIN shown[label] :
                  /\ k \notin {"user_time", "system_time", "colors"}
                  /\ shown[label][k] \in 0..(Len(RANGES.colors) - 1)
    IN  /\ (pc = "p_round" /\ i >= 1) => ShownFor(<<queries[qi], i>>, result)
        /\ (pc = "p_for" /\ qi >= 1) =>
              ShownFor(<<queries[qi], 0>>, report[queries[qi]])

\* The summary of a seven-field RunResult has been shown with five ranks.
C17_Witness ==
    /\ pc = "p_round" /\ i = 1
    /\ DOMAIN result = Fields
    /\ DOMAIN shown[<<queries[qi], 1>>] =
          {"utilization", "cpu_time", "memory", "fds", "duration"}

\* C18: every average placed in the report is over at least one RunResult
\* and has all seven fields, whatever --rounds is.
C18_AverageOverAtLeastOneRound ==
    pc = "p_avg" =>
        /\ rounds >= 1
        /\ Len(runs) >= 1
        /\ DOMAIN report[queries[qi]] = Fields

\* The positions of __main__ before profile or profile_leaks is entered,
\* and its exit.
BeforeProfiling == pc \in {"m_shell", "m_tables", "m_queries", "exit"}

\* The setup errors with the table-spec path checked in every case.
SetupErrorAsClaimed ==
    \/ ~args.shell_exists
    \/ ~args.tables_exists
    \/ args.config_given /\ ~args.config_exists
    \/ args.config_given /\ args.config_exists /\ ~args.config_parses

\* The setup errors, the table specs counting only without --config.
SetupError ==
    \/ ~args.shell_exists
    \/ ~args.config_given /\ ~args.tables_exists
    \/ args.config_given /\ ~args.config_exists
    \/ args.config_given /\ args.config_exists /\ ~args.config_parses

\* C12 as claimed: with a missing binary, a missing table-spec path, a
\* missing config file or an unparsable config the program never enters
\* profile or profile_leaks, launches no subprocess and exits with a
\* nonzero status.
C12_SetupErrorsFatalAsClaimed ==
    SetupErrorAsClaimed =>
        /\ BeforeProfiling
        /\ launched = 0
        /\ pc = "exit" => exit_status > 0

\* C12 amended: the same, a missing table-spec path being a setup error only
\* when no --config is given.
C12_SetupErrorsFatal ==
    SetupError =>
        /\ BeforeProfiling
        /\ launched = 0
        /\ pc = "exit" => exit_status > 0

\* The program has exited with 1 on a config that exists and does not
\* parse, every other path being there.
C12_Witness ==
    /\ pc = "exit" /\ exit_status = 1 /\ launched = 0
    /\ args.shell_exists /\ args.tables_exists
    /\ args.config_given /\ args.config_exists /\ ~args.config_parses

\* C14: a diagnostic line that holds one of the tokens and no colon leaves
\* the summary field as it was, and check_leaks_linux raises nothing.
C14_MalformedLineDegrades ==
    (nlines > 0 /\ ~Contains(line, ":")
       /\ \E k \in LeakKeys : Contains(line, k)) =>
        /\ err = "none"
        /\ pc # "raised"

\* C15: what check_leaks_darwin returns has the three fields of a
\* LeakSummary: definitely is the value of the last "total leaked bytes"
\* line seen, indirectly and possibly are there and None.
C15_DarwinSummaryHasThreeFields ==
    pc = "dw_done" =>
        /\ DOMAIN dsummary = LeakKeys
        /\ dsummary.definitely = leak_checks
        /\ dsummary.indirectly = None
        /\ dsummary.possibly = None

\* C19: when run_query has returned, its subprocess is no longer running,
\* and at most one subprocess is alive at any time.
C19_OneWorkloadAtATime ==
    /\ pc = "p_store" => proc \notin alive
    /\ Cardinality(alive) <= 1

====
